---------------------------- MODULE Spec2Model ----------------------------
(***************************************************************************)
(* A model of src/lambda/nl2sql_handler.py: the NL -> SQL lambda.          *)
(*                                                                         *)
(*   invoke_bedrock_with_retry   the retry loop around the generator       *)
(*   call_bedrock_for_sql        generator call + text extraction          *)
(*   sanitize_sql                the SQL guardrail                         *)
(*   run_athena                  submit, poll, fetch pages                 *)
(*   summarize_with_bedrock      second generator call                     *)
(*   lambda_handler              the request handler                       *)
(*                                                                         *)
(* Text is modelled as a sequence of one-character strings, so that the    *)
(* regular expressions and the strip/rstrip/split calls of the source are  *)
(* computed character by character.                                        *)
(*                                                                         *)
(*   Spec               one request through lambda_handler                 *)
(*   SpecSanitize       sanitize_sql called on every candidate text        *)
(*   SpecSanitizeTwice  sanitize_sql called again on what it returned      *)
(*   SpecRunAthena      run_athena with a wait loop polled without bound   *)
(*   SpecPaging         the page loop with follow-up pages never empty     *)
(***************************************************************************)
EXTENDS Integers, Sequences, FiniteSets, TLC

(***************************************************************************)
(* Characters                                                              *)
(***************************************************************************)
LowerLetters == <<"a", "b", "c", "d", "e", "f", "g", "h", "i", "j", "k", "l", "m", "n", "o", "p", "q", "r", "s", "t", "u", "v", "w", "x", "y", "z">>

UpperLetters == <<"A", "B", "C", "D", "E", "F", "G", "H", "I", "J", "K", "L", "M", "N", "O", "P", "Q", "R", "S", "T", "U", "V", "W", "X", "Y", "Z">>

DigitChars == <<"0", "1", "2", "3", "4", "5", "6", "7", "8", "9">>

Range(f) == {f[i] : i \in DOMAIN f}

\* str.strip() with no argument, and \s of the re module
Whitespace == {" ", "\t", "\n", "\r", "\f"}

\* \w of the re module: the characters on either side of which \b can hold
WordChars == Range(LowerLetters) \cup Range(UpperLetters) \cup Range(DigitChars) \cup {"_"}

\* the character class [a-zA-Z0-9_\.] of the table regex
TableChars == WordChars \cup {"."}

LowerOf == [c \in Range(UpperLetters) |-> LowerLetters[CHOOSE i \in 1..26 : UpperLetters[i] = c]]

\* re.IGNORECASE compares characters by their lower-case form
Lower(c) == IF c \in Range(UpperLetters) THEN LowerOf[c] ELSE c

Min(S) == CHOOSE x \in S : \A y \in S : x <= y

Max(S) == CHOOSE x \in S : \A y \in S : x >= y

(***************************************************************************)
(* str methods                                                             *)
(***************************************************************************)
\* s.lstrip(chars)
lstrip(s, chars) ==
    LET keep == {i \in 1..Len(s) : s[i] \notin chars}
    IN  IF keep = {} THEN <<>> ELSE SubSeq(s, Min(keep), Len(s))

\* s.rstrip(chars)
rstrip(s, chars) ==
    LET keep == {i \in 1..Len(s) : s[i] \notin chars}
    IN  IF keep = {} THEN <<>> ELSE SubSeq(s, 1, Max(keep))

\* s.strip(chars)
strip(s, chars) == rstrip(lstrip(s, chars), chars)

\* c in s, for a one-character c
Contains(s, c) == \E i \in 1..Len(s) : s[i] = c

\* s.split(c)[0]
SplitFirst(s, c) ==
    LET at == {i \in 1..Len(s) : s[i] = c}
    IN  IF at = {} THEN s ELSE SubSeq(s, 1, Min(at) - 1)

\* str(n) for n >= 0, in decimal
RECURSIVE str(_)
str(n) == IF n < 10 THEN <<DigitChars[n + 1]>>
          ELSE str(n \div 10) \o <<DigitChars[(n % 10) + 1]>>

(***************************************************************************)
(* re primitives                                                           *)
(***************************************************************************)
IsWordAt(s, i) == i >= 1 /\ i <= Len(s) /\ s[i] \in WordChars

\* \b between s[i-1] and s[i], i in 1..Len(s)+1
Boundary(s, i) == IsWordAt(s, i - 1) # IsWordAt(s, i)

\* the literal w (given in lower case) matches at i, ignoring case
MatchAt(s, i, w) ==
    /\ i >= 1
    /\ i + Len(w) - 1 <= Len(s)
    /\ \A k \in 1..Len(w) : Lower(s[i + k - 1]) = w[k]

\* the end (exclusive) of the longest run of characters of cls starting at i
RunEnd(s, i, cls) ==
    LET stop == {j \in i..Len(s) : s[j] \notin cls}
    IN  IF stop = {} THEN Len(s) + 1 ELSE Min(stop)

\* re.search(r"\bw\b", s, re.IGNORECASE) is not None
SearchWord(s, w) ==
    \E i \in 1..Len(s) : Boundary(s, i) /\ MatchAt(s, i, w) /\ Boundary(s, i + Len(w))

(***************************************************************************)
(* Configuration (module level)                                            *)
(***************************************************************************)
MAX_ROWS == 100

ALLOWED_SCHEMAS == { <<"n", "y", "c", "_", "t", "a", "x", "i">> }

kwSelect == <<"s", "e", "l", "e", "c", "t">>

kwLimit == <<"l", "i", "m", "i", "t">>

kwFrom == <<"f", "r", "o", "m">>

kwJoin == <<"j", "o", "i", "n">>

BANNED == { <<"u", "n", "l", "o", "a", "d">>, <<"c", "r", "e", "a", "t", "e">>,
            <<"d", "r", "o", "p">>, <<"d", "e", "l", "e", "t", "e">>,
            <<"u", "p", "d", "a", "t", "e">>, <<"i", "n", "s", "e", "r", "t">>,
            <<"g", "r", "a", "n", "t">>, <<"m", "s", "c", "k">>,
            <<"a", "l", "t", "e", "r">> }

\* f" LIMIT {MAX_ROWS}"
LimitClause == <<" ", "L", "I", "M", "I", "T", " ">> \o str(MAX_ROWS)

(***************************************************************************)
(* sanitize_sql                                                            *)
(***************************************************************************)
NotSelectMsg == "Only SELECT queries are allowed."

MultipleStatementsMsg == "Multiple statements are not allowed."

SchemaNotAllowedMsg == "Query must use schemas in"

BannedKeywordMsg == "Only read-only SELECT queries are allowed."

\* a call's outcome: the returned text, or the exception raised.  `names` are
\* the schema names the message interpolates.
Return(s) == [ok |-> TRUE, sql |-> s, exc |-> "", msg |-> "", names |-> {}]

Raise(e, m, n) == [ok |-> FALSE, sql |-> <<>>, exc |-> e, msg |-> m, names |-> n]

\* IsSelect with the \b after "select" left out
IsSelectPrefix(sql) == MatchAt(sql, RunEnd(sql, 1, Whitespace), kwSelect)

\* re.match(r"^\s*select\b", sql, re.IGNORECASE | re.DOTALL)
IsSelect(sql) ==
    LET j == RunEnd(sql, 1, Whitespace)
    IN  MatchAt(sql, j, kwSelect) /\ Boundary(sql, j + Len(kwSelect))

\* ";" in sql.strip().rstrip(";")
HasStatementSeparator(sql) ==
    Contains(rstrip(strip(sql, Whitespace), {";"}), ";")

\* EnforceLimit looking for "limit" anywhere, not as a whole word
EnforceLimitSubstring(sql) ==
    IF ~(\E i \in 1..Len(sql) : MatchAt(sql, i, kwLimit))
    THEN rstrip(rstrip(sql, Whitespace), {";"}) \o LimitClause
    ELSE sql

\* EnforceLimit without the test of line 143: the limit is always appended
EnforceLimitAlways(sql) == rstrip(rstrip(sql, Whitespace), {";"}) \o LimitClause

\* step 2: append the limit when re.search(r"\blimit\b", ...) is None
EnforceLimit(sql) ==
    IF ~SearchWord(sql, kwLimit)
    THEN rstrip(rstrip(sql, Whitespace), {";"}) \o LimitClause
    ELSE sql

\* one match of r"\b(?:from|join)\s+([a-zA-Z0-9_\.]+)" at i: <<group 1, end>>,
\* or <<>> when the pattern does not match at i
TableMatchAt(s, i) ==
    IF Boundary(s, i) /\ (MatchAt(s, i, kwFrom) \/ MatchAt(s, i, kwJoin))
    THEN LET ws == i + 4
             tk == RunEnd(s, ws, Whitespace)
             en == RunEnd(s, tk, TableChars)
         IN  IF tk > ws /\ en > tk THEN <<SubSeq(s, tk, en - 1), en>> ELSE <<>>
    ELSE <<>>

\* re.findall of the table regex: non-overlapping matches, left to right
RECURSIVE findall_tables(_, _)
findall_tables(s, i) ==
    IF i > Len(s) THEN <<>>
    ELSE LET m == TableMatchAt(s, i)
         IN  IF m = <<>> THEN findall_tables(s, i + 1)
             ELSE <<m[1]>> \o findall_tables(s, m[2])

\* t.strip().strip('"').strip("`").strip("'")
DoubleQuote == "\""

\* the grave accent (U+0060); the parser does not take it inside a string
Backtick == "U+0060"

SingleQuote == "'"

StripQuoting(t) ==
    strip(strip(strip(strip(t, Whitespace), {DoubleQuote}), {Backtick}), {SingleQuote})

\* step 3: some table after FROM/JOIN has a schema outside ALLOWED_SCHEMAS
SchemaViolation(sql) ==
    LET tables == findall_tables(sql, 1)
    IN  \E k \in 1..Len(tables) :
            LET t == StripQuoting(tables[k])
            IN  Contains(t, ".") /\ SplitFirst(t, ".") \notin ALLOWED_SCHEMAS

\* BannedFound without re.IGNORECASE
BannedFoundCaseSensitive(sql) ==
    \E w \in BANNED : \E i \in 1..Len(sql) :
        /\ Boundary(sql, i)
        /\ i + Len(w) - 1 <= Len(sql)
        /\ SubSeq(sql, i, i + Len(w) - 1) = w
        /\ Boundary(sql, i + Len(w))

\* step 4: re.findall(r"\b(unload|...|alter)\b", sql, re.IGNORECASE) is not empty
BannedFound(sql) == \E w \in BANNED : SearchWord(sql, w)

sanitize_sql(raw) ==
    LET sql == strip(raw, Whitespace)
    IN  IF ~IsSelect(sql) THEN Raise("ValueError", NotSelectMsg, {})
        ELSE IF HasStatementSeparator(sql)
             THEN Raise("ValueError", MultipleStatementsMsg, {})
        ELSE LET limited == EnforceLimit(sql)
             IN  IF SchemaViolation(limited)
                 THEN Raise("ValueError", SchemaNotAllowedMsg, ALLOWED_SCHEMAS)
                 ELSE IF BannedFound(limited)
                      THEN Raise("ValueError", BannedKeywordMsg, {})
                      ELSE Return(limited)

(***************************************************************************)
(* Candidate texts: what the generator may answer.  A candidate is the     *)
(* concatenation of at most MaxPieces fragments.                           *)
(***************************************************************************)
MaxPieces == 3

\* the fragments, in order: "SELECT *", "select", newline and space, ";", ";;",
\* "LIMIT 5", " FROM ", " join ", "nyc_taxi.yellow_curated", "evil.t",
\* "a,evil.t", "evil".t with the schema in double quotes, "(SELECT Drop)", "update"
Pieces == {
    <<"S", "E", "L", "E", "C", "T", " ", "*">>,
    <<"s", "e", "l", "e", "c", "t">>,
    <<"\n", " ">>,
    <<";">>,
    <<";", ";">>,
    <<"L", "I", "M", "I", "T", " ", "5">>,
    <<" ", "F", "R", "O", "M", " ">>,
    <<" ", "j", "o", "i", "n", " ">>,
    <<"n", "y", "c", "_", "t", "a", "x", "i", ".", "y", "e", "l", "l", "o", "w", "_", "c", "u", "r", "a", "t", "e", "d">>,
    <<"e", "v", "i", "l", ".", "t">>,
    <<"a", ",", "e", "v", "i", "l", ".", "t">>,
    <<"\"", "e", "v", "i", "l", "\"", ".", "t">>,
    <<"(", "S", "E", "L", "E", "C", "T", " ", "D", "r", "o", "p", ")">>,
    <<"u", "p", "d", "a", "t", "e">> }

RECURSIVE Texts(_)
Texts(n) == IF n = 0 THEN { <<>> }
            ELSE LET shorter == Texts(n - 1)
                 IN  shorter \cup { t \o p : t \in shorter, p \in Pieces }

Candidates == Texts(MaxPieces)

(***************************************************************************)
(* The collaborators: what the generator and the query engine may answer   *)
(***************************************************************************)
\* invoke_bedrock_with_retry(payload, max_attempts=6); both callers use the default
max_attempts == 6

\* min(8.0, (2 ** attempt) * 0.5) + random.uniform(0, 0.3), in milliseconds
BACKOFF_BASE_MS == 500

BACKOFF_CAP_MS == 8000

JITTER_MS == 300

\* the values of random.uniform(0, 0.3) the model draws: both ends of the range
Jitters == {0, JITTER_MS}

\* get_query_results(..., MaxResults=1000)
MaxResults == 1000

\* polls answered with a non-terminal state, per query
MaxPolls == 2

\* follow-up calls of get_query_results, per query
MaxFetches == 3

THROTTLING == {"ThrottlingException", "TooManyRequestsException"}

\* Error.Code of the ClientErrors bedrock.invoke_model raises
ClientErrorCodes == THROTTLING \cup {"AccessDeniedException"}

\* exceptions of invoke_model that are no ClientError
OtherErrors == {"ReadTimeoutError"}

Fence == <<Backtick, Backtick, Backtick>>

\* the text blocks of the generator's answer to the SQL prompt: the query
\* "SELECT * FROM nyc_taxi.yellow_curated" inside a fence, "select 1 LIMIT 5;",
\* "SELECT * FROM evil.t", and "select 1" inside a fence tagged sql
GeneratorTexts == {
    Fence \o <<"\n">> \o <<"S", "E", "L", "E", "C", "T", " ", "*">> \o <<" ", "F", "R", "O", "M", " ">>
          \o <<"n", "y", "c", "_", "t", "a", "x", "i", ".", "y", "e", "l", "l", "o", "w", "_", "c", "u", "r", "a", "t", "e", "d">>
          \o <<"\n">> \o Fence,
    <<"s", "e", "l", "e", "c", "t">> \o <<" ", "1", " ">> \o <<"L", "I", "M", "I", "T", " ", "5">> \o <<";">>,
    <<"S", "E", "L", "E", "C", "T", " ", "*">> \o <<" ", "F", "R", "O", "M", " ">> \o <<"e", "v", "i", "l", ".", "t">>,
    Fence \o <<"s", "q", "l", "\n">> \o <<"s", "e", "l", "e", "c", "t">> \o <<" ", "1">> \o Fence }

\* the text of the generator's answer to the summary prompt
Narratives == { <<"N">> }

Questions == { <<"Q">> }

\* the event of an invocation: isBase64Encoded, the kind of event["body"], and
\* what the decoded body (or, without a body, the event itself) holds
Events ==
    { e \in [isBase64Encoded : BOOLEAN, body : {"None", "str", "dict"},
             holds : {"question", "q", "empty", "nothing", "not_json", "list"}] :
        /\ (e.holds = "not_json" => e.body = "str")
        /\ (e.holds = "list" => e.body = "str")
        /\ (e.isBase64Encoded => e.body = "str") }

EngineStates == {"QUEUED", "RUNNING", "SUCCEEDED", "FAILED", "CANCELLED"}

TERMINAL == {"SUCCEEDED", "FAILED", "CANCELLED"}

\* StateChangeReason: absent (the code reads "") or a text
Reasons == {"", "SYNTAX_ERROR"}

\* the number of rows of one page of get_query_results
PageSizes == {0, 1, 40, 41, MaxResults}

\* NextToken: absent (None) or a token
Tokens == {"None", "token"}

(***************************************************************************)
(* State                                                                   *)
(***************************************************************************)
VARIABLES
    pc,          \* the position of the request in lambda_handler
    event,       \* lambda_handler's event
    question,    \* lambda_handler's question
    purpose,     \* the caller of invoke_bedrock_with_retry: "sql" or "summary"
    attempt,     \* invoke_bedrock_with_retry's attempt
    calls,       \* calls of bedrock.invoke_model made by the current invocation
    sleeps,      \* the backoffs slept by the current invocation, in ms
    last_error,  \* what the last call of invoke_model raised, "" when it answered
    out,         \* what invoke_bedrock_with_retry returned
    candidate,   \* the text sanitize_sql was called with
    sql,         \* lambda_handler's sql
    sres,        \* the outcome of the call of sanitize_sql
    submitted,   \* the QueryStrings given to athena.start_query_execution
    state,       \* run_athena's state
    polls,       \* polls of the current query answered with a non-terminal state
    served,      \* rows the engine has handed out for the current query
    headers,     \* run_athena's headers
    rows,        \* run_athena's rows
    next_token,  \* run_athena's next_token
    fetches,     \* follow-up calls of get_query_results for the current query
    narrative,   \* lambda_handler's narrative
    err,         \* the exception in flight
    response,    \* what lambda_handler returned
    log          \* the steps of lambda_handler entered so far, in order

vars == <<pc, event, question, purpose, attempt, calls, sleeps, last_error, out,
          candidate, sql,
          sres, submitted, state, polls, served, headers, rows, next_token, fetches,
          narrative, err, response, log>>

invokeVars == <<purpose, attempt, calls, sleeps, last_error, out>>

athenaVars == <<submitted, state, polls, served, headers, rows, next_token, fetches>>

NoResult == [ok |-> FALSE, sql |-> <<>>, exc |-> "", msg |-> "", names |-> {}]

NoErr == [exc |-> "", msg |-> "", detail |-> <<>>, names |-> {}]

Exc(e, m, d, n) == [exc |-> e, msg |-> m, detail |-> d, names |-> n]

NoResponse == [statusCode |-> 0, error |-> NoErr, sql |-> <<>>, columns |-> <<>>,
               rows |-> <<>>, row_count |-> 0, narrative |-> <<>>]

(***************************************************************************)
(* lambda_handler: parsing the event                                       *)
(***************************************************************************)
\* lines 224-232: the exception raised while decoding the body, or NoErr
BodyError(e) ==
    IF e.isBase64Encoded
    THEN Exc("NameError", "name 'base64' is not defined", <<>>, {})
    ELSE IF e.body = "str" /\ e.holds = "not_json"
         THEN Exc("JSONDecodeError", "Expecting value", <<>>, {})
         ELSE IF e.holds = "list"
              THEN Exc("AttributeError", "'list' object has no attribute 'get'", <<>>, {})
              ELSE NoErr

\* line 234: body.get("question") or body.get("q")
QuestionOf(e) ==
    IF e.holds \in {"question", "q"} THEN CHOOSE q \in Questions : TRUE ELSE <<>>

ParseEvent ==
    /\ pc = "start"
    /\ IF BodyError(event) # NoErr
       THEN /\ err' = BodyError(event)
            /\ pc' = "raised"
            /\ UNCHANGED <<question, response>>
       ELSE IF QuestionOf(event) = <<>>
            THEN /\ response' = [NoResponse EXCEPT !.statusCode = 400,
                                    !.error = Exc("", "Missing 'question' field", <<>>, {})]
                 /\ pc' = "done"
                 /\ UNCHANGED <<question, err>>
            ELSE /\ question' = QuestionOf(event)
                 /\ pc' = "call_bedrock_for_sql"
                 /\ UNCHANGED <<err, response>>
    /\ UNCHANGED <<event, invokeVars, candidate, sql, sres, athenaVars, narrative, log>>

(***************************************************************************)
(* invoke_bedrock_with_retry                                               *)
(***************************************************************************)
\* Retryable for every ClientError, throttling or not
RetryableAnyError(code, n) == n < max_attempts - 1

\* Retryable with one attempt too many
RetryableOffByOne(code, n) == code \in THROTTLING /\ n < max_attempts

\* line 96: the error is retried
Retryable(code, n) == code \in THROTTLING /\ n < max_attempts - 1

\* 2 * n where the source has 2 ** n
TwoTimes(n) == 2 * n

\* 2 ** n
RECURSIVE Pow2(_)
Pow2(n) == IF n = 0 THEN 1 ELSE 2 * Pow2(n - 1)

\* Backoff without the exponential growth
BackoffFlat(n, jitter) == BACKOFF_BASE_MS + jitter

\* line 97, in milliseconds
Backoff(n, jitter) ==
    (IF Pow2(n) * BACKOFF_BASE_MS < BACKOFF_CAP_MS THEN Pow2(n) * BACKOFF_BASE_MS
     ELSE BACKOFF_CAP_MS) + jitter

\* lines 92-93: invoke_model answers, the decoded answer is returned
InvokeReturns ==
    /\ pc = "invoke"
    /\ \E text \in (IF purpose = "sql" THEN GeneratorTexts ELSE Narratives) :
           out' = text
    /\ calls' = calls + 1
    /\ last_error' = ""
    /\ pc' = "invoke_returned"
    /\ UNCHANGED <<event, question, purpose, attempt, sleeps, candidate, sql, sres,
                   athenaVars, narrative, err, response, log>>

\* lines 94-100: a throttling error with attempts left: sleep, then try again
InvokeRetries ==
    /\ pc = "invoke"
    /\ \E code \in ClientErrorCodes, jitter \in Jitters :
           /\ Retryable(code, attempt)
           /\ sleeps' = Append(sleeps, Backoff(attempt, jitter))
           /\ last_error' = code
    /\ calls' = calls + 1
    /\ attempt' = attempt + 1
    /\ UNCHANGED <<pc, event, question, purpose, out, candidate, sql, sres,
                   athenaVars, narrative, err, response, log>>

\* line 101, and the exceptions the except clause does not catch
InvokeRaises ==
    /\ pc = "invoke"
    /\ \/ \E code \in ClientErrorCodes :
              /\ ~Retryable(code, attempt)
              /\ err' = Exc("ClientError", code, <<>>, {})
              /\ last_error' = code
       \/ \E e \in OtherErrors : err' = Exc(e, "", <<>>, {}) /\ last_error' = e
    /\ calls' = calls + 1
    /\ pc' = "raised"
    /\ UNCHANGED <<event, question, purpose, attempt, sleeps, out, candidate, sql, sres,
                   athenaVars, narrative, response, log>>

(***************************************************************************)
(* call_bedrock_for_sql                                                    *)
(***************************************************************************)
\* lines 104-124: build the prompt and call the generator
CallBedrockForSql ==
    /\ pc = "call_bedrock_for_sql"
    /\ purpose' = "sql"
    /\ attempt' = 0
    /\ calls' = 0
    /\ sleeps' = <<>>
    /\ last_error' = ""
    /\ out' = <<>>
    /\ log' = Append(log, "call_bedrock_for_sql")
    /\ pc' = "invoke"
    /\ UNCHANGED <<event, question, candidate, sql, sres, athenaVars, narrative, err,
                   response>>

\* lines 125-128: text.strip(), then .strip().strip("```").strip()
ExtractText(text) ==
    strip(strip(strip(strip(text, Whitespace), Whitespace), {Backtick}), Whitespace)

ReturnSql ==
    /\ pc = "invoke_returned"
    /\ purpose = "sql"
    /\ sql' = ExtractText(out)
    /\ pc' = "sanitize"
    /\ attempt' = 0
    /\ calls' = 0
    /\ sleeps' = <<>>
    /\ last_error' = ""
    /\ out' = <<>>
    /\ UNCHANGED <<event, question, purpose, candidate, sres, athenaVars, narrative, err,
                   response, log>>

(***************************************************************************)
(* lambda_handler, line 239                                                *)
(***************************************************************************)
\* Sanitize with the rejection dropped: the candidate goes on to run_athena
SanitizeProceeds ==
    /\ pc = "sanitize"
    /\ candidate' = sql
    /\ sres' = sanitize_sql(sql)
    /\ log' = Append(log, "sanitize_sql")
    /\ sql' = (IF sres'.ok THEN sres'.sql ELSE sql)
    /\ pc' = "run_athena"
    /\ UNCHANGED <<event, question, invokeVars, athenaVars, narrative, err, response>>

\* line 239: sql = sanitize_sql(sql)
Sanitize ==
    /\ pc = "sanitize"
    /\ candidate' = sql
    /\ sres' = sanitize_sql(sql)
    /\ log' = Append(log, "sanitize_sql")
    /\ IF sres'.ok
       THEN sql' = sres'.sql /\ pc' = "run_athena" /\ err' = err
       ELSE /\ sql' = sql
            /\ pc' = "raised"
            /\ err' = Exc(sres'.exc, sres'.msg, <<>>, sres'.names)
    /\ UNCHANGED <<event, question, invokeVars, athenaVars, narrative, response>>

(***************************************************************************)
(* run_athena                                                              *)
(***************************************************************************)
\* lines 166-172: submit the query
StartQuery ==
    /\ pc = "run_athena"
    /\ submitted' = Append(submitted, sql)
    /\ log' = Append(log, "run_athena")
    /\ state' = ""
    /\ polls' = 0
    /\ served' = 0
    /\ headers' = <<>>
    /\ rows' = <<>>
    /\ next_token' = "None"
    /\ fetches' = 0
    /\ pc' = "poll"
    /\ UNCHANGED <<event, question, invokeVars, candidate, sql, sres, narrative, err,
                   response>>

\* lines 175-179: a non-terminal state: sleep and poll again
PollPending ==
    /\ pc = "poll"
    /\ polls < MaxPolls
    /\ \E s \in EngineStates \ TERMINAL : state' = s
    /\ polls' = polls + 1
    /\ UNCHANGED <<pc, event, question, invokeVars, candidate, sql, sres, submitted,
                   served, headers, rows, next_token, fetches, narrative, err,
                   response, log>>

\* lines 175-180: the query succeeded
PollSucceeded ==
    /\ pc = "poll"
    /\ state' = "SUCCEEDED"
    /\ pc' = "get_query_results"
    /\ UNCHANGED <<event, question, invokeVars, candidate, sql, sres, submitted, polls,
                   served, headers, rows, next_token, fetches, narrative, err,
                   response, log>>

\* PollFailed without the test of line 180: the results are fetched all the same
PollFailedFetches ==
    /\ pc = "poll"
    /\ \E s \in TERMINAL \ {"SUCCEEDED"} : state' = s
    /\ pc' = "get_query_results"
    /\ UNCHANGED <<event, question, invokeVars, candidate, sql, sres, submitted, polls,
                   served, headers, rows, next_token, fetches, narrative, err,
                   response, log>>

\* lines 180-182: FAILED or CANCELLED
PollFailed ==
    /\ pc = "poll"
    /\ \E s \in TERMINAL \ {"SUCCEEDED"}, reason \in Reasons :
           /\ state' = s
           /\ err' = Exc("RuntimeError", "Athena query failed:", <<s, reason>>, {})
    /\ pc' = "raised"
    /\ UNCHANGED <<event, question, invokeVars, candidate, sql, sres, submitted, polls,
                   served, headers, rows, next_token, fetches, narrative, response,
                   log>>

\* a page of n rows of the result set, from row number `from` on.  A row is
\* modelled by its number in the result set; row 0 is the header row.
Page(from, n) == [i \in 1..n |-> from + i - 1]

\* FetchFirst without the [1:] of line 188: the header row is kept as a data row
FetchFirstKeepsHeader ==
    /\ pc = "get_query_results"
    /\ \E n \in PageSizes, token \in Tokens :
           IF n = 0
           THEN /\ err' = Exc("IndexError", "list index out of range", <<>>, {})
                /\ pc' = "raised"
                /\ UNCHANGED <<served, headers, rows, next_token>>
           ELSE /\ headers' = <<Page(0, n)[1]>>
                /\ rows' = Page(0, n)
                /\ next_token' = token
                /\ served' = n
                /\ pc' = "while_next_token"
                /\ err' = err
    /\ UNCHANGED <<event, question, invokeVars, candidate, sql, sres, submitted, state,
                   polls, fetches, narrative, response, log>>

\* lines 185-191: the first page
FetchFirst ==
    /\ pc = "get_query_results"
    /\ \E n \in PageSizes, token \in Tokens :
           IF n = 0
           THEN /\ err' = Exc("IndexError", "list index out of range", <<>>, {})
                /\ pc' = "raised"
                /\ UNCHANGED <<served, headers, rows, next_token>>
           ELSE /\ headers' = <<Page(0, n)[1]>>
                /\ rows' = Tail(Page(0, n))
                /\ next_token' = token
                /\ served' = n
                /\ pc' = "while_next_token"
                /\ err' = err
    /\ UNCHANGED <<event, question, invokeVars, candidate, sql, sres, submitted, state,
                   polls, fetches, narrative, response, log>>

\* lines 194-196: append the page's rows, stopping at MAX_ROWS
RECURSIVE AppendPage(_, _)
AppendPage(acc, page) ==
    IF page = <<>> THEN acc
    ELSE LET more == Append(acc, Head(page))
         IN  IF Len(more) >= MAX_ROWS THEN more ELSE AppendPage(more, Tail(page))

\* MorePages with <= where the source has <
MorePagesOffByOne(token, acc) == token # "None" /\ Len(acc) <= MAX_ROWS

\* MorePages without the test of the row count
MorePagesTokenOnly(token, acc) == token # "None"

\* line 192: the loop condition
MorePages(token, acc) == token # "None" /\ Len(acc) < MAX_ROWS

\* lines 193-197: one more page
FetchNext ==
    /\ pc = "while_next_token"
    /\ MorePages(next_token, rows)
    /\ fetches < MaxFetches
    /\ \E n \in PageSizes, token \in Tokens :
           /\ rows' = AppendPage(rows, Page(served, n))
           /\ served' = served + n
           /\ next_token' = token
    /\ fetches' = fetches + 1
    /\ UNCHANGED <<pc, event, question, invokeVars, candidate, sql, sres, submitted,
                   state, polls, headers, narrative, err, response, log>>

\* line 198: return headers, rows; the other locals of run_athena are gone
ReturnRows ==
    /\ pc = "while_next_token"
    /\ ~MorePages(next_token, rows)
    /\ pc' = "summarize"
    /\ state' = ""
    /\ polls' = 0
    /\ served' = 0
    /\ next_token' = "None"
    /\ fetches' = 0
    /\ UNCHANGED <<event, question, invokeVars, candidate, sql, sres, submitted,
                   headers, rows, narrative, err, response, log>>

(***************************************************************************)
(* summarize_with_bedrock                                                  *)
(***************************************************************************)
\* lines 201-219: build the preview and call the generator
CallSummarize ==
    /\ pc = "summarize"
    /\ purpose' = "summary"
    /\ attempt' = 0
    /\ calls' = 0
    /\ sleeps' = <<>>
    /\ last_error' = ""
    /\ out' = <<>>
    /\ log' = Append(log, "summarize_with_bedrock")
    /\ pc' = "invoke"
    /\ UNCHANGED <<event, question, candidate, sql, sres, athenaVars, narrative, err,
                   response>>

\* line 220
ReturnNarrative ==
    /\ pc = "invoke_returned"
    /\ purpose = "summary"
    /\ narrative' = strip(out, Whitespace)
    /\ pc' = "respond"
    /\ attempt' = 0
    /\ calls' = 0
    /\ sleeps' = <<>>
    /\ last_error' = ""
    /\ out' = <<>>
    /\ UNCHANGED <<event, question, purpose, candidate, sql, sres, athenaVars, err,
                   response, log>>

(***************************************************************************)
(* lambda_handler: the responses                                           *)
(***************************************************************************)
\* lines 244-254
Respond ==
    /\ pc = "respond"
    /\ response' = [statusCode |-> 200, error |-> NoErr, sql |-> sql,
                    columns |-> headers, rows |-> rows, row_count |-> Len(rows),
                    narrative |-> narrative]
    /\ pc' = "done"
    /\ UNCHANGED <<event, question, invokeVars, candidate, sql, sres, athenaVars,
                   narrative, err, log>>

\* lines 255-256: except Exception as e
Catch ==
    /\ pc = "raised"
    /\ response' = [NoResponse EXCEPT !.statusCode = 500, !.error = err]
    /\ pc' = "done"
    /\ UNCHANGED <<event, question, invokeVars, candidate, sql, sres, athenaVars,
                   narrative, err, log>>

(***************************************************************************)
(* One request                                                             *)
(***************************************************************************)
Init ==
    /\ pc = "start"
    /\ event \in Events
    /\ question = <<>>
    /\ purpose = ""
    /\ attempt = 0
    /\ calls = 0
    /\ sleeps = <<>>
    /\ last_error = ""
    /\ out = <<>>
    /\ candidate = <<>>
    /\ sql = <<>>
    /\ sres = NoResult
    /\ submitted = <<>>
    /\ state = ""
    /\ polls = 0
    /\ served = 0
    /\ headers = <<>>
    /\ rows = <<>>
    /\ next_token = "None"
    /\ fetches = 0
    /\ narrative = <<>>
    /\ err = NoErr
    /\ response = NoResponse
    /\ log = <<>>

Next ==
    \/ ParseEvent
    \/ CallBedrockForSql
    \/ InvokeReturns
    \/ InvokeRetries
    \/ InvokeRaises
    \/ ReturnSql
    \/ Sanitize
    \/ StartQuery
    \/ PollPending
    \/ PollSucceeded
    \/ PollFailed
    \/ FetchFirst
    \/ FetchNext
    \/ ReturnRows
    \/ CallSummarize
    \/ ReturnNarrative
    \/ Respond
    \/ Catch

Spec == Init /\ [][Next]_vars

(***************************************************************************)
(* sanitize_sql alone, called with any candidate text                      *)
(***************************************************************************)
InitSanitize ==
    /\ pc = "sanitize"
    /\ sql \in Candidates
    /\ event = CHOOSE e \in Events : TRUE
    /\ question = <<>>
    /\ purpose = ""
    /\ attempt = 0
    /\ calls = 0
    /\ sleeps = <<>>
    /\ last_error = ""
    /\ out = <<>>
    /\ candidate = <<>>
    /\ sres = NoResult
    /\ submitted = <<>>
    /\ state = ""
    /\ polls = 0
    /\ served = 0
    /\ headers = <<>>
    /\ rows = <<>>
    /\ next_token = "None"
    /\ fetches = 0
    /\ narrative = <<>>
    /\ err = NoErr
    /\ response = NoResponse
    /\ log = <<>>

SpecSanitize == InitSanitize /\ [][Sanitize]_vars

\* the steps of lambda_handler, lines 238-242
Steps == <<"call_bedrock_for_sql", "sanitize_sql", "run_athena", "summarize_with_bedrock">>

\* what call_bedrock_for_sql can return
GeneratedCandidates == {ExtractText(t) : t \in GeneratorTexts}

(***************************************************************************)
(* sanitize_sql called on its own output                                   *)
(***************************************************************************)
\* sanitize_sql(sql) once more, on the text the first call returned; sql keeps
\* the first call's output, candidate and sres are the second call's argument
\* and outcome
SanitizeAgain ==
    /\ pc = "run_athena"
    /\ candidate' = sql
    /\ sres' = sanitize_sql(sql)
    /\ log' = Append(log, "sanitize_sql")
    /\ pc' = "sanitized_twice"
    /\ UNCHANGED <<event, question, invokeVars, sql, athenaVars, narrative, err,
                   response>>

NextSanitizeTwice == Sanitize \/ SanitizeAgain

SpecSanitizeTwice == InitSanitize /\ [][NextSanitizeTwice]_vars

(***************************************************************************)
(* run_athena alone, on a query sanitize_sql returned                      *)
(***************************************************************************)
\* the generator's answers sanitize_sql accepts
AcceptedCandidates == {c \in GeneratedCandidates : sanitize_sql(c).ok}

\* lambda_handler at line 241, about to call run_athena
InitRunAthena ==
    /\ pc = "run_athena"
    /\ event \in {e \in Events : BodyError(e) = NoErr /\ QuestionOf(e) # <<>>
                                   /\ e.body = "dict" /\ e.holds = "question"}
    /\ question = QuestionOf(event)
    /\ purpose = "sql"
    /\ attempt = 0
    /\ calls = 0
    /\ sleeps = <<>>
    /\ last_error = ""
    /\ out = <<>>
    /\ candidate \in AcceptedCandidates
    /\ sres = sanitize_sql(candidate)
    /\ sql = sres.sql
    /\ submitted = <<>>
    /\ state = ""
    /\ polls = 0
    /\ served = 0
    /\ headers = <<>>
    /\ rows = <<>>
    /\ next_token = "None"
    /\ fetches = 0
    /\ narrative = <<>>
    /\ err = NoErr
    /\ response = NoResponse
    /\ log = SubSeq(Steps, 1, 2)

\* PollAgain with a timeout: the loop gives up after MaxPolls polls
PollAgainTimesOut ==
    /\ pc = "poll"
    /\ \E s \in EngineStates \ TERMINAL : state' = s
    /\ IF polls < MaxPolls
       THEN polls' = polls + 1 /\ pc' = pc /\ err' = err
       ELSE /\ polls' = polls
            /\ pc' = "raised"
            /\ err' = Exc("TimeoutError", "", <<>>, {})
    /\ UNCHANGED <<event, question, invokeVars, candidate, sql, sres, submitted,
                   served, headers, rows, next_token, fetches, narrative,
                   response, log>>

\* lines 175-179 with no bound on the number of polls: a non-terminal state,
\* sleep and poll again; polls counts them up to MaxPolls only
PollAgain ==
    /\ pc = "poll"
    /\ \E s \in EngineStates \ TERMINAL : state' = s
    /\ polls' = IF polls < MaxPolls THEN polls + 1 ELSE polls
    /\ UNCHANGED <<pc, event, question, invokeVars, candidate, sql, sres, submitted,
                   served, headers, rows, next_token, fetches, narrative, err,
                   response, log>>

NextRunAthena ==
    \/ StartQuery
    \/ PollAgain
    \/ PollSucceeded
    \/ PollFailed
    \/ FetchFirst
    \/ FetchNext
    \/ ReturnRows

\* the engine eventually reports a terminal state
EngineFairness == WF_vars(PollSucceeded \/ PollFailed)

SpecRunAthena == InitRunAthena /\ [][NextRunAthena]_vars /\ EngineFairness

(***************************************************************************)
(* run_athena's page loop with an engine whose follow-up pages are never   *)
(* empty                                                                   *)
(***************************************************************************)
MaxFollowUps == 102

\* run_athena at line 185: the query was submitted and a poll saw SUCCEEDED
InitPaging ==
    /\ pc = "get_query_results"
    /\ event \in {e \in Events : BodyError(e) = NoErr /\ QuestionOf(e) # <<>>
                                   /\ e.body = "dict" /\ e.holds = "question"}
    /\ question = QuestionOf(event)
    /\ purpose = "sql"
    /\ attempt = 0
    /\ calls = 0
    /\ sleeps = <<>>
    /\ last_error = ""
    /\ out = <<>>
    /\ candidate \in AcceptedCandidates
    /\ sres = sanitize_sql(candidate)
    /\ sql = sres.sql
    /\ submitted = <<sql>>
    /\ state = "SUCCEEDED"
    /\ polls = 0
    /\ served = 0
    /\ headers = <<>>
    /\ rows = <<>>
    /\ next_token = "None"
    /\ fetches = 0
    /\ narrative = <<>>
    /\ err = NoErr
    /\ response = NoResponse
    /\ log = SubSeq(Steps, 1, 3)

\* lines 193-197: one more page, of at least one row
FetchNonEmpty ==
    /\ pc = "while_next_token"
    /\ MorePages(next_token, rows)
    /\ fetches < MaxFollowUps
    /\ \E n \in PageSizes \ {0}, token \in Tokens :
           /\ rows' = AppendPage(rows, Page(served, n))
           /\ served' = served + n
           /\ next_token' = token
    /\ fetches' = fetches + 1
    /\ UNCHANGED <<pc, event, question, invokeVars, candidate, sql, sres, submitted,
                   state, polls, headers, narrative, err, response, log>>

NextPaging ==
    \/ FetchFirst
    \/ FetchNonEmpty
    \/ ReturnRows

\* run_athena runs on: a call of get_query_results is answered and the
\* statement after it is executed
PagingFairness ==
    WF_vars(FetchFirst) /\ WF_vars(FetchNonEmpty) /\ WF_vars(ReturnRows)

SpecPaging == InitPaging /\ [][NextPaging]_vars /\ PagingFairness

(***************************************************************************)
(* Properties                                                              *)
(***************************************************************************)
IsPrefix(a, b) == Len(a) <= Len(b) /\ SubSeq(b, 1, Len(a)) = a

\* sanitize_sql has been called: candidate and sres are its argument and outcome
Sanitized == "sanitize_sql" \in Range(log)

LowerSeq(t) == [k \in 1..Len(t) |-> Lower(t[k])]

\* the lower-cased words of s: its maximal runs of word characters
WordsOf(s) ==
    { LowerSeq(SubSeq(s, i, RunEnd(s, i, WordChars) - 1)) :
        i \in {j \in 1..Len(s) : IsWordAt(s, j) /\ ~IsWordAt(s, j - 1)} }

\* the first word of s after its leading whitespace (empty when s does not
\* start with a word there)
FirstToken(s) ==
    LET t == lstrip(s, Whitespace)
    IN  SubSeq(t, 1, RunEnd(t, 1, WordChars) - 1)

NonDecreasing(s) == \A i \in 1..(Len(s) - 1) : s[i] <= s[i + 1]

\* C1: within one request the steps are entered in the order generator call,
\* sanitize_sql, run_athena, summarize, each only after the one before it
\* succeeded; start_query_execution is only ever given the string sanitize_sql
\* returned; after a rejection no query is submitted and no summary is asked for.
C1_StepsInOrder ==
    /\ IsPrefix(log, Steps)
    /\ (Len(log) >= 2 => candidate \in GeneratedCandidates)
    /\ (Len(log) >= 3 => sres.ok)
    /\ (Len(log) >= 4 => submitted # <<>> /\ headers # <<>>)
    /\ (pc = "run_athena" => sres = sanitize_sql(candidate) /\ sql = sres.sql)
    /\ Len(submitted) <= 1
    /\ \A i \in 1..Len(submitted) :
           /\ Sanitized
           /\ sres.ok
           /\ submitted[i] = sres.sql
    /\ ((Sanitized /\ ~sres.ok) => submitted = <<>> /\ log = SubSeq(Steps, 1, 2))

C1_Witness ==
    /\ pc = "done"
    /\ response.statusCode = 200
    /\ log = Steps
    /\ submitted = <<sres.sql>>
    /\ candidate # sres.sql

\* C2: only a throttling error is retried.  A call of invoke_model that raises
\* anything else, at whatever attempt, leads straight to the raise of that error
\* with no sleep, and no call or sleep follows the raise.
C2_OnlyThrottlingRetried ==
    [][ /\ (pc = "invoke" /\ calls' = calls + 1 /\ last_error' \notin THROTTLING \cup {""}) =>
              /\ pc' = "raised"
              /\ sleeps' = sleeps
              /\ attempt' = attempt
              /\ err' \in {Exc("ClientError", last_error', <<>>, {}),
                           Exc(last_error', "", <<>>, {})}
        /\ (sleeps' # sleeps /\ sleeps' # <<>>) => last_error' \in THROTTLING
        /\ pc = "raised" => calls' = calls /\ sleeps' = sleeps /\ pc' = "done" ]_vars

C2_Witness ==
    /\ pc = "raised"
    /\ last_error = "AccessDeniedException"
    /\ err = Exc("ClientError", "AccessDeniedException", <<>>, {})
    /\ Len(sleeps) = 2
    /\ calls = 3

\* C3: the generator is never called more than max_attempts times by one
\* invocation, and a throttling error is surfaced only after exactly
\* max_attempts calls and max_attempts - 1 sleeps; it is the error of the last call.
C3_BoundedAttempts ==
    /\ calls <= max_attempts
    /\ Len(sleeps) <= max_attempts - 1
    /\ (pc = "raised" /\ last_error \in THROTTLING) =>
           /\ calls = max_attempts
           /\ Len(sleeps) = max_attempts - 1
           /\ err = Exc("ClientError", last_error, <<>>, {})

C3_Witness ==
    /\ pc = "raised"
    /\ last_error \in THROTTLING
    /\ calls = max_attempts
    /\ Len(sleeps) = max_attempts - 1

\* C4: when the invocation returns an answer, it does so after N calls and
\* N - 1 sleeps for some N in 1..max_attempts (the N - 1 throttled calls, then
\* the answered one), and the delays slept are non-decreasing.
C4_SuccessAfterThrottling ==
    pc = "invoke_returned" =>
        /\ calls \in 1..max_attempts
        /\ Len(sleeps) = calls - 1
        /\ attempt = calls - 1
        /\ last_error = ""
        /\ out \in GeneratorTexts \cup Narratives
        /\ NonDecreasing(sleeps)

C4_Witness ==
    /\ pc = "invoke_returned"
    /\ calls = max_attempts
    /\ Len(sleeps) = max_attempts - 1
    /\ sleeps[1] = BACKOFF_BASE_MS + JITTER_MS
    /\ sleeps[2] = 2 * BACKOFF_BASE_MS

\* C5: a candidate whose first token after leading whitespace is not SELECT
\* (in any letter case) is rejected with "Only SELECT queries are allowed." and
\* no SQL is returned.
C5_NotSelectRejected ==
    (Sanitized /\ LowerSeq(FirstToken(candidate)) # kwSelect) =>
        /\ ~sres.ok
        /\ sres.exc = "ValueError"
        /\ sres.msg = NotSelectMsg
        /\ sres.sql = <<>>
        /\ submitted = <<>>

C5_Witness ==
    /\ Sanitized
    /\ sres.msg = NotSelectMsg
    /\ Len(candidate) > 0
    /\ candidate[1] \in Whitespace
    /\ MatchAt(lstrip(candidate, Whitespace), 1, kwSelect)

EndsWith(s, t) == Len(s) >= Len(t) /\ SubSeq(s, Len(s) - Len(t) + 1, Len(s)) = t

\* the number of occurrences of the character c in s
Count(s, c) == Cardinality({i \in 1..Len(s) : s[i] = c})

\* the longest run of digits s ends with
TrailingDigits(s) ==
    LET other == {i \in 1..Len(s) : s[i] \notin Range(DigitChars)}
    IN  SubSeq(s, IF other = {} THEN 1 ELSE Max(other) + 1, Len(s))

\* the number a non-empty digit string reads as
RECURSIVE ParseNat(_)
ParseNat(d) ==
    LET last == (CHOOSE i \in 1..10 : DigitChars[i] = d[Len(d)]) - 1
    IN  IF Len(d) = 1 THEN last ELSE 10 * ParseNat(SubSeq(d, 1, Len(d) - 1)) + last

\* the characters of a possibly quoted, possibly qualified table name
NameChars == TableChars \cup {DoubleQuote, Backtick, SingleQuote}

\* the last index before j that holds no whitespace, 0 if there is none
LastBefore(s, j) ==
    LET before == {m \in 1..(j - 1) : s[m] \notin Whitespace}
    IN  IF before = {} THEN 0 ELSE Max(before)

\* the start of the run of name characters that ends at q
NameStart(s, q) ==
    LET other == {m \in 1..q : s[m] \notin NameChars}
    IN  IF other = {} THEN 1 ELSE Max(other) + 1

\* a name starting at j stands where a table is named: after the keyword FROM
\* or JOIN and whitespace, or after the comma that follows such a name
RECURSIVE NamesTable(_, _)
NamesTable(s, j) ==
    LET p == LastBefore(s, j)
    IN  /\ p > 0
        /\ \/ /\ p < j - 1
              /\ MatchAt(s, p - 3, kwFrom) \/ MatchAt(s, p - 3, kwJoin)
              /\ Boundary(s, p - 3)
           \/ /\ s[p] = ","
              /\ LET q == LastBefore(s, p)
                 IN  q > 0 /\ s[q] \in NameChars /\ NamesTable(s, NameStart(s, q))

\* the qualified table names x.y of s
QualifiedTables(s) ==
    { SubSeq(s, i, RunEnd(s, i, NameChars) - 1) :
        i \in { j \in 2..Len(s) :
                  /\ s[j] \in NameChars
                  /\ s[j - 1] \notin NameChars
                  /\ Contains(SubSeq(s, j, RunEnd(s, j, NameChars) - 1), ".")
                  /\ NamesTable(s, j) } }

\* the schemas the qualified table names of s refer to
ReferencedSchemas(s) == { StripQuoting(SplitFirst(t, ".")) : t \in QualifiedTables(s) }

\* C6: a string sanitize_sql returns holds the terminator ";" at most once, and
\* then as its last non-whitespace character; a candidate ending in several
\* terminators is not returned with several.
C6_SingleTrailingTerminator ==
    (Sanitized /\ sres.ok) =>
        /\ Count(sres.sql, ";") <= 1
        /\ (Count(sres.sql, ";") = 1 => EndsWith(rstrip(sres.sql, Whitespace), <<";">>))

\* C7: an accepted candidate without the whole word LIMIT (in any letter case)
\* is returned with " LIMIT <MAX_ROWS>" appended at the end of the statement; an
\* accepted candidate that has the word is returned as it was after trimming.
C7_LimitEnforced ==
    (Sanitized /\ sres.ok) =>
        LET t == strip(candidate, Whitespace)
            r == sres.sql
        IN  IF kwLimit \in WordsOf(candidate)
            THEN r = t
            ELSE LET digits == TrailingDigits(r)
                     body == SubSeq(r, 1, Len(r) - Len(digits) - 7)
                 IN  /\ Len(digits) > 0
                     /\ ParseNat(digits) = MAX_ROWS
                     /\ EndsWith(SubSeq(r, 1, Len(r) - Len(digits)),
                                 <<" ", "L", "I", "M", "I", "T", " ">>)
                     /\ IsPrefix(body, t)
                     /\ \A i \in (Len(body) + 1)..Len(t) : t[i] \in Whitespace \cup {";"}
                     /\ kwLimit \notin WordsOf(body)

C7_Witness ==
    /\ Sanitized
    /\ sres.ok
    /\ kwLimit \notin WordsOf(candidate)
    /\ \E i \in 1..Len(candidate) : MatchAt(candidate, i, kwLimit)
    /\ EndsWith(sres.sql, LimitClause)

\* C8: a candidate that refers to a qualified table x.y with x outside the
\* allow-list is rejected, so every string sanitize_sql returns refers only to
\* schemas of ALLOWED_SCHEMAS in its qualified table names.
C8_OnlyAllowedSchemas ==
    (Sanitized /\ sres.ok) => ReferencedSchemas(sres.sql) \subseteq ALLOWED_SCHEMAS

\* C9 as claimed: every candidate with a banned keyword as a whole word is
\* rejected with "Only read-only SELECT queries are allowed."
C9_AlwaysBannedKeyword ==
    (Sanitized /\ WordsOf(candidate) \cap BANNED # {}) =>
        ~sres.ok /\ sres.msg = BannedKeywordMsg

\* C9: a candidate with a banned keyword as a whole word, in any letter case
\* and also inside a nested subquery, is rejected: with the banned-keyword error
\* unless an earlier step rejected it (not a SELECT, several statements, schema
\* not allowed); no returned string holds a banned keyword as a whole word.
C9_BannedNeverReturned ==
    /\ (Sanitized /\ WordsOf(candidate) \cap BANNED # {}) =>
           /\ ~sres.ok
           /\ \/ sres.msg = BannedKeywordMsg
              \/ sres.msg = NotSelectMsg /\ LowerSeq(FirstToken(candidate)) # kwSelect
              \/ sres.msg = MultipleStatementsMsg /\ Contains(candidate, ";")
              \/ /\ sres.msg = SchemaNotAllowedMsg
                 /\ ~(ReferencedSchemas(candidate) \subseteq ALLOWED_SCHEMAS)
    /\ (Sanitized /\ sres.ok) => WordsOf(sres.sql) \cap BANNED = {}

C9_Witness ==
    /\ Sanitized
    /\ sres.msg = BannedKeywordMsg
    /\ Contains(candidate, "(")
    /\ <<"d", "r", "o", "p">> \in WordsOf(candidate)
    /\ LowerSeq(FirstToken(candidate)) = kwSelect

ExampleCandidate ==
    <<"S", "E", "L", "E", "C", "T", " ", "*">> \o <<" ", "F", "R", "O", "M", " ">>
        \o <<"n", "y", "c", "_", "t", "a", "x", "i", ".", "y", "e", "l", "l", "o", "w", "_", "c", "u", "r", "a", "t", "e", "d">>

\* s without its trailing terminator, if it has one
WithoutTerminator(s) == IF EndsWith(s, <<";">>) THEN SubSeq(s, 1, Len(s) - 1) ELSE s

\* C10: nothing but the missing limit is corrected: an accepted candidate is
\* returned either as it was after trimming (it has a LIMIT) or, trimmed and
\* without its trailing terminator, followed by " LIMIT <MAX_ROWS>"; the
\* candidate "SELECT * FROM nyc_taxi.yellow_curated" comes back with " LIMIT 100".
C10_OnlyLimitAdded ==
    (Sanitized /\ sres.ok) =>
        LET t == strip(candidate, Whitespace)
        IN  /\ IF kwLimit \in WordsOf(t)
               THEN sres.sql = t
               ELSE sres.sql = WithoutTerminator(t) \o LimitClause
            /\ (candidate = ExampleCandidate =>
                    sres.sql = ExampleCandidate \o <<" ", "L", "I", "M", "I", "T", " ", "1", "0", "0">>)

\* C11: when a poll sees FAILED or CANCELLED, run_athena raises an error that
\* carries that state and the engine's reason, and get_query_results is not
\* called for the query; results are fetched only after a poll saw SUCCEEDED.
C11_FailedQueryFetchesNothing ==
    /\ state \in TERMINAL \ {"SUCCEEDED"} =>
           /\ pc \in {"raised", "done"}
           /\ err.exc = "RuntimeError"
           /\ err.msg = "Athena query failed:"
           /\ \E reason \in Reasons : err.detail = <<state, reason>>
           /\ served = 0 /\ fetches = 0 /\ headers = <<>> /\ rows = <<>>
           /\ (pc = "done" => response.statusCode = 500 /\ response.error = err)
    /\ pc \in {"get_query_results", "while_next_token"} => state = "SUCCEEDED"
    /\ (served > 0 \/ fetches > 0) => state = "SUCCEEDED"

C11_Witness ==
    /\ pc = "done"
    /\ state = "CANCELLED"
    /\ polls > 0
    /\ response.statusCode = 500
    /\ response.error.detail = <<"CANCELLED", "SYNTAX_ERROR">>

\* C12: whatever the engine does (any number of pages, any page sizes up to
\* MaxResults, any continuation tokens), run_athena returns at most MAX_ROWS
\* data rows.
C12_AtMostMaxRows ==
    pc = "summarize" => Len(rows) <= MAX_ROWS

\* the base delays of the claim, in ms, for the sleeps 0..4
BaseDelays == <<500, 1000, 2000, 4000, 8000>>

\* C13: the i-th sleep (counted from 0) of an invocation lasts between
\* min(8000, 500 * 2^i) ms and 300 ms more; with max_attempts = 6 there are at
\* most five sleeps, their base delays are 500, 1000, 2000, 4000 and 8000 ms, and
\* no sleep is longer than 8300 ms.
C13_BackoffSchedule ==
    /\ Len(sleeps) <= Len(BaseDelays)
    /\ \A k \in 1..Len(sleeps) :
           LET i == k - 1
               base == IF 500 * 2^i < 8000 THEN 500 * 2^i ELSE 8000
           IN  /\ base = BaseDelays[k]
               /\ base <= sleeps[k]
               /\ sleeps[k] <= base + 300
               /\ sleeps[k] <= 8300

C13_Witness ==
    /\ Len(sleeps) = 5
    /\ sleeps[1] = 500
    /\ sleeps[3] = 2300
    /\ sleeps[5] = 8300

\* the steps of sanitize_sql, in order, that the candidate s violates: 1 the
\* first token is not SELECT, 2 a terminator is left once at most one trailing
\* terminator is stripped, 3 a table after FROM or JOIN names a schema outside
\* the allow-list, 4 a banned keyword occurs as a whole word
ViolatedSteps(s) ==
    LET t == strip(s, Whitespace)
    IN  {k \in 1..4 :
            \/ k = 1 /\ LowerSeq(FirstToken(t)) # kwSelect
            \/ k = 2 /\ Contains(WithoutTerminator(t), ";")
            \/ k = 3 /\ SchemaViolation(t)
            \/ k = 4 /\ WordsOf(t) \cap BANNED # {}}

StepMsg == <<NotSelectMsg, MultipleStatementsMsg, SchemaNotAllowedMsg, BannedKeywordMsg>>

\* C14: sanitize_sql fails fast in a fixed order: a candidate that violates
\* several rules is rejected with the error of the earliest violated step in the
\* order NotSelect, MultipleStatements, SchemaNotAllowed, BannedKeyword.
C14_EarliestViolationReported ==
    (Sanitized /\ Cardinality(ViolatedSteps(candidate)) >= 2) =>
        /\ ~sres.ok
        /\ sres.msg = StepMsg[CHOOSE k \in ViolatedSteps(candidate) :
                                  \A j \in ViolatedSteps(candidate) : k <= j]

\* C15: after the query is submitted run_athena polls again as long as the
\* engine reports a non-terminal state, and neither returns nor fails meanwhile;
\* the loop is left only on a terminal state, so there is no timeout: whatever
\* the number of polls so far, one more non-terminal answer is possible and
\* keeps the loop going.  When the engine eventually reports SUCCEEDED, FAILED
\* or CANCELLED the loop is eventually left.
C15_PollsUntilTerminal ==
    /\ [][(pc = "poll" /\ state' \notin TERMINAL) =>
              /\ pc' = "poll"
              /\ err' = err
              /\ response' = response
              /\ headers' = headers /\ rows' = rows]_vars
    /\ [][(pc = "poll" /\ pc' # "poll") => state' \in TERMINAL]_vars
    /\ [](pc = "poll" => ENABLED PollAgain)
    /\ (pc = "poll") ~> (pc # "poll")

C15_Witness ==
    /\ pc = "get_query_results"
    /\ polls = MaxPolls
    /\ state = "SUCCEEDED"

\* C16: after the first page run_athena fetches a further page exactly when the
\* last response carried a continuation token and fewer than MAX_ROWS data rows
\* are accumulated; once MAX_ROWS rows are reached it fetches no more and
\* returns without an error, also when a continuation token is still present.
C16_FetchesWhileTokenAndBelowCap ==
    /\ [][fetches' = fetches + 1 =>
              /\ pc = "while_next_token"
              /\ next_token # "None"
              /\ Len(rows) < MAX_ROWS]_vars
    /\ [][(pc = "while_next_token" /\ pc' # "while_next_token") =>
              /\ next_token = "None" \/ Len(rows) >= MAX_ROWS
              /\ pc' = "summarize"
              /\ err' = err
              /\ rows' = rows /\ headers' = headers]_vars
    /\ []((pc = "while_next_token" /\ next_token # "None" /\ Len(rows) < MAX_ROWS
              /\ fetches < MaxFetches)
            => ENABLED FetchNext /\ ~ENABLED ReturnRows)
    /\ []((pc = "while_next_token" /\ (next_token = "None" \/ Len(rows) >= MAX_ROWS))
            => ENABLED ReturnRows /\ ~ENABLED FetchNext)

C16_Witness ==
    /\ pc = "while_next_token"
    /\ next_token = "token"
    /\ Len(rows) = MAX_ROWS
    /\ fetches = 2
    /\ served > MAX_ROWS + 1
    /\ err = NoErr

\* the rows numbered from..to of the result set, in engine order
RowsFromTo(from, to) == [i \in 1..(to - from + 1) |-> from + i - 1]

\* C17: headers are the cells of the first row of the first page, and the data
\* rows are the other rows of the first page followed by the rows of the later
\* pages, in engine order, up to the row at which the loop stopped at MAX_ROWS:
\* the header row (row 0) is no data row, and no row of a later page is left
\* out as if it were a header.
C17_HeaderThenRowsInOrder ==
    headers # <<>> =>
        /\ headers = <<0>>
        /\ rows = RowsFromTo(1, Len(rows))
        /\ pc = "while_next_token" =>
               \/ Len(rows) = served - 1
               \/ fetches > 0 /\ Len(rows) = MAX_ROWS /\ Len(rows) < served - 1

C17_Witness ==
    /\ pc = "while_next_token"
    /\ fetches = 2
    /\ served = 121
    /\ rows = RowsFromTo(1, MAX_ROWS)
    /\ headers = <<0>>

\* the body of the event, once decoded, is a JSON object with no question
NoQuestion(e) == e.holds \in {"empty", "nothing"}

\* C18: lambda_handler never raises and drops no failure: every invocation ends
\* in a response with statusCode 200, 400 or 500; 400 is returned exactly when
\* the body has no question, and then neither the generator nor the engine was
\* called; an error raised by a step gives a 500 response that carries the
\* error; 200 is returned only when all four steps succeeded.
C18_EveryInvocationAnswered ==
    pc = "done" =>
        /\ response.statusCode \in {200, 400, 500}
        /\ response.statusCode = 400 <=> NoQuestion(event)
        /\ response.statusCode = 400 => log = <<>> /\ submitted = <<>>
        /\ err # NoErr => response.statusCode = 500 /\ response.error = err
        /\ response.statusCode = 500 => err # NoErr
        /\ response.statusCode = 200 =>
               /\ log = Steps
               /\ err = NoErr
               /\ sres.ok /\ response.sql = sres.sql /\ submitted = <<sres.sql>>
               /\ response.rows = rows /\ response.row_count = Len(rows)

\* C19: sanitize_sql is idempotent on its own output: called on a string it
\* returned, it does not reject and returns that string unchanged; in
\* particular no second LIMIT clause is appended.
C19_IdempotentOnOutput ==
    pc = "sanitized_twice" =>
        /\ candidate = sql
        /\ sres.ok
        /\ sres.sql = sql
        /\ ~EndsWith(sres.sql, LimitClause \o LimitClause)

C19_Witness ==
    /\ pc = "sanitized_twice"
    /\ sres.ok
    /\ EndsWith(sres.sql, LimitClause)
    /\ Contains(sres.sql, ".")
    /\ Len(log) = 2

\* C20: once the query has SUCCEEDED the page loop of run_athena ends: with
\* follow-up pages of at least one row each it makes at most MAX_ROWS follow-up
\* fetches and then returns, and it returns as soon as a response carries no
\* continuation token.
C20_PageLoopTerminates ==
    /\ [](fetches <= MAX_ROWS)
    /\ [][(pc = "while_next_token" /\ next_token = "None") => pc' = "summarize"]_vars
    /\ []((pc = "while_next_token" /\ next_token = "None")
            => ENABLED ReturnRows /\ ~ENABLED FetchNonEmpty)
    /\ (pc = "while_next_token") ~> (pc = "summarize")

C20_Witness ==
    /\ pc = "while_next_token"
    /\ fetches = MAX_ROWS
    /\ Len(rows) = MAX_ROWS
    /\ next_token = "token"

=============================================================================
